---- MODULE Spec2Model ----
(***************************************************************************)
(* gourmet: a network sensor that builds and loads analyzer plugins at     *)
(* startup (cmd/main.go) and runs every registered analyzer against each   *)
(* connection record (Connection.analyze).                                 *)
(*                                                                         *)
(* Three specifications share this module:                                 *)
(*   Spec          the startup sequence of main, newAnalyzers included;    *)
(*   ValidateSpec  the configuration functions of cmd/main.go applied to   *)
(*                 a wide set of values;                                   *)
(*   DispatchSpec  Connection.analyze run on connection records against a  *)
(*                 registry of analyzers.                                  *)
(***************************************************************************)
EXTENDS Integers, Sequences, FiniteSets, TLC

(***************************************************************************)
(* Bounds of the model.                                                    *)
(***************************************************************************)
\* configured analyzer links
MaxLinks == 2
\* longest analyzer registry
MaxAnalyzers == 2
\* applications of the configuration functions to one configuration
MaxCalls == 3
\* dispatches of one connection record
MaxDispatches == 2

VARIABLES
  registeredAnalyzers, \* the package-level registry Connection.analyze ranges over
  conn,                \* the connection records: TransportType and Analyzers (Results)
  pc,                  \* per record: "idle" or "loop" (inside Connection.analyze)
  idx,                 \* per record: registry position of the next loop iteration
  cur,                 \* per record: the running dispatch, its Results before it and its calls
  hist,                \* per record: the dispatches that returned, oldest first
  crashed,             \* the process panicked
  cfg,                 \* main: the *gourmet.Config read from the configuration file
  fs,                  \* per configured link: its plugin directory under ~/.gourmet/plugins
  mpc,                 \* main: the statement it is at, or how the process ended
  na,                  \* newAnalyzers: its position and its local variables
  rv,                  \* what newAnalyzers returned: (analyzers, err)
  ifaceType,           \* main: the interface type convertIfaceType returned
  sensor,              \* the SensorOptions gourmet.Start was called with
  log,                 \* the calls and external commands issued so far, in order
  applied              \* applications of the configuration functions: argument and result

dvars == <<registeredAnalyzers, conn, pc, idx, cur, hist, crashed>>

svars == <<cfg, fs, mpc, na, rv, ifaceType, sensor, log, applied>>

vars == <<dvars, svars>>

(***************************************************************************)
(* Analyzers.  An analyzer is third-party code behind the interface        *)
(* Filter(c) / Analyze(c) / result.Key(); the model draws it from a small  *)
(* family of behaviours.  Both calls receive the *Connection, so they can  *)
(* read every field of the record, the Analyzers map included.             *)
(***************************************************************************)
Keys == {"x", "y"}

\* "always": true; "tcp": TransportType == "TCP";
\* "seen_x": the record's Analyzers map already holds key "x"
FilterKinds == {"always", "tcp", "seen_x"}

\* "ok": a result and a nil error; "fail": a nil result and a non-nil error;
\* "fail_res": a result and a non-nil error; "nil": a nil result and a nil error
AnalyzeKinds == {"ok", "fail", "fail_res", "nil"}

Failing == {"fail", "fail_res"}

\* an analyzer that returns a result declares its key; one that returns none
\* has no key
Analyzer ==
  [filter : FilterKinds, analyze : {"ok", "fail_res"}, key : Keys]
    \cup [filter : FilterKinds, analyze : {"fail", "nil"}, key : {""}]

Conns == {"c1", "c2"}

TransportOf(c) == IF c = "c1" THEN "TCP" ELSE "UDP"

EmptyMap == [k \in {} |-> 0]

Connection(t) == [TransportType |-> t, Analyzers |-> EmptyMap]

Filter(a, c) ==
  CASE a.filter = "always" -> TRUE
    [] a.filter = "tcp"    -> c.TransportType = "TCP"
    [] a.filter = "seen_x" -> "x" \in DOMAIN c.Analyzers

\* a nil Result interface value
NilResult == [by |-> 0, key |-> ""]

\* the outcome of Analyze of the analyzer at registry position i; err 0 is the
\* nil error, err i the error of the analyzer at position i
Analyze(a, c, i) ==
  CASE a.analyze = "ok"   -> [result |-> [by |-> i, key |-> a.key], nil |-> FALSE, err |-> 0]
    [] a.analyze = "fail" -> [result |-> NilResult, nil |-> TRUE, err |-> i]
    [] a.analyze = "fail_res" ->
         [result |-> [by |-> i, key |-> a.key], nil |-> FALSE, err |-> i]
    [] a.analyze = "nil"  -> [result |-> NilResult, nil |-> TRUE, err |-> 0]

\* line 24: the analyzer is asked to Analyze iff its Filter returned true
StepsAllAnalyzers(f) == TRUE
ShouldAnalyze(f) == f

\* lines 26-28: a non-nil error ends the loop
ErrorIgnored(err) == FALSE
ErrorReturns(err) == err # 0

\* line 29: c.Analyzers[result.Key()] = result
StoreUnlessPresent(m, res) ==
  IF res.key \in DOMAIN m THEN m ELSE (res.key :> res) @@ m
StoreBesides(m, res) ==
  IF res.key \in DOMAIN m THEN ("dup" :> res) @@ m ELSE (res.key :> res) @@ m
Store(m, res) == (res.key :> res) @@ m

Sequences_(S, n) == UNION {[1..k -> S] : k \in 0..n}

(***************************************************************************)
(* Integers of cmd/main.go.  Config.SnapLen is a Go int; the comparison    *)
(* with 4294967295 at line 116 compiles only where int has 64 bits.  A     *)
(* 64-bit two's-complement integer is four 16-bit limbs <<l3, l2, l1, l0>>,*)
(* most significant first, the top limb signed: its value is               *)
(* l3 * 2^48 + l2 * 2^32 + l1 * 2^16 + l0.                                 *)
(***************************************************************************)
\* a < b on 64-bit integers
Lt(a, b) ==
  \E n \in 1..4 : a[n] < b[n] /\ \A m \in 1..(n - 1) : a[m] = b[m]

\* uint32(n): the low 32 bits
uint32(n) == <<0, 0, n[3], n[4]>>

Zero == <<0, 0, 0, 0>>
\* line 113: 64
MinSnapLen == <<0, 0, 0, 64>>
\* line 116: 4294967295
MaxSnapLen == <<0, 0, 65535, 65535>>
\* line 79: 262144
DefaultSnapLen == <<0, 0, 4, 0>>

NoError == "nil"

\* lines 112-120
validateSnapshotLengthNoMax(snapLen) ==
  IF Lt(snapLen, MinSnapLen) THEN "minimum snapshot length is 64" ELSE NoError
validateSnapshotLengthOffByOne(snapLen) ==
  IF ~Lt(MinSnapLen, snapLen)
  THEN "minimum snapshot length is 64"
  ELSE IF Lt(MaxSnapLen, snapLen)
  THEN "snapshot length must be an unsigned 32-bit integer"
  ELSE NoError
validateSnapshotLength(snapLen) ==
  IF Lt(snapLen, MinSnapLen)
  THEN "minimum snapshot length is 64"
  ELSE IF Lt(MaxSnapLen, snapLen)
  THEN "snapshot length must be an unsigned 32-bit integer"
  ELSE NoError

\* the lower-case spelling of an interface type name
Lower(name) ==
  CASE name = "Libpcap" -> "libpcap"
    [] name = "AFPACKET" -> "afpacket"
    [] OTHER -> name

\* lines 122-130: (gourmet.InterfaceType, error)
convertIfaceTypeAnyCase(name) ==
  IF Lower(name) = "libpcap"
  THEN [type |-> "LibpcapType", err |-> NoError]
  ELSE IF Lower(name) = "afpacket"
  THEN [type |-> "AfpacketType", err |-> NoError]
  ELSE [type |-> "0", err |-> "invalid interface type. Must be libpcap or afpacket"]
convertIfaceType(name) ==
  IF name = "libpcap"
  THEN [type |-> "LibpcapType", err |-> NoError]
  ELSE IF name = "afpacket"
  THEN [type |-> "AfpacketType", err |-> NoError]
  ELSE [type |-> "0", err |-> "invalid interface type. Must be libpcap or afpacket"]

\* lines 77-87
setDefaultsAlways(c) ==
  [c EXCEPT !.SnapLen = DefaultSnapLen, !.LogFile = "gourmet.log",
            !.InterfaceType = "libpcap"]
setDefaults(c) ==
  [c EXCEPT
     !.SnapLen = IF c.SnapLen = Zero THEN DefaultSnapLen ELSE @,
     !.LogFile = IF c.LogFile = "" THEN "gourmet.log" ELSE @,
     !.InterfaceType = IF c.InterfaceType = "" THEN "libpcap" ELSE @]

\* pcap.FindAllDevs() of the host
Devices == {"eth0", "lo"}

\* lines 104-109
validateInterfaceAny(iface) == NoError
validateInterface(iface) ==
  IF iface \in Devices THEN NoError
  ELSE "specified network interface does not exist"

(***************************************************************************)
(* Configurations and plugin directories the startup is run on.            *)
(***************************************************************************)
AllLinks == <<"github.com/u/a", "github.com/u/b", "github.com/u/c", "github.com/u/d">>

Links == {AllLinks[n] : n \in 1..MaxLinks}

SnapLens ==
  { <<-1, 65535, 65535, 65535>>,   \* -1
    Zero,
    <<0, 0, 0, 63>>,
    MinSnapLen,
    MaxSnapLen,
    <<0, 1, 0, 0>>,                \* 4294967296
    <<0, 1, 0, 64>> }              \* 4294967360, whose low 32 bits are 64

Configs ==
  [Interface : {"eth0", "wlan9"},
   SnapLen : SnapLens,
   LogFile : {"", "s.log"},
   InterfaceType : {"", "libpcap", "afpacket", "Libpcap"},
   Analyzers : SUBSET Links,
   UpdateAnalyzers : BOOLEAN]

\* a plugin directory: absent, present with or without main.go, or one that
\* os.Stat cannot examine (an error other than not-exist)
FsStates ==
  { [dir |-> "absent", main |-> FALSE],
    [dir |-> "present", main |-> TRUE],
    [dir |-> "present", main |-> FALSE],
    [dir |-> "unreadable", main |-> FALSE] }

\* lines 187-195: (bool, error)
dirExists(d) ==
  IF d.dir = "present" THEN [exists |-> TRUE, err |-> NoError]
  ELSE IF d.dir = "absent" THEN [exists |-> FALSE, err |-> NoError]
  ELSE [exists |-> TRUE, err |-> "stat"]

NoFrame ==
  [pc |-> "none", todo |-> {}, link |-> "", analyzerFiles |-> <<>>, k |-> 0,
   analyzers |-> <<>>]

NoReturn == [analyzers |-> <<>>, err |-> "none"]

NoSensor == [started |-> FALSE]

StartupIdle ==
  /\ cfg = [Interface |-> "", SnapLen |-> Zero, LogFile |-> "", InterfaceType |-> "",
            Analyzers |-> {}, UpdateAnalyzers |-> FALSE]
  /\ fs = [l \in {} |-> 0]
  /\ mpc = "none"
  /\ na = NoFrame
  /\ rv = NoReturn
  /\ ifaceType = "0"
  /\ sensor = NoSensor
  /\ log = <<>>
  /\ applied = <<>>

DispatchIdle ==
  /\ registeredAnalyzers = <<>>
  /\ conn = [c \in Conns |-> Connection(TransportOf(c))]
  /\ pc = [c \in Conns |-> "idle"]
  /\ idx = [c \in Conns |-> 0]
  /\ cur = [c \in Conns |-> [pre |-> EmptyMap, calls |-> <<>>]]
  /\ hist = [c \in Conns |-> <<>>]
  /\ crashed = FALSE

(***************************************************************************)
(* main and newAnalyzers, one action per call or external command.         *)
(***************************************************************************)
Init ==
  /\ cfg \in Configs
  /\ fs \in [cfg.Analyzers -> FsStates]
  /\ mpc = "parseConfigFile"
  /\ na = NoFrame
  /\ rv = NoReturn
  /\ ifaceType = "0"
  /\ sensor = NoSensor
  /\ log = <<>>
  /\ applied = <<>>
  /\ DispatchIdle

\* a call or command, whether it succeeded, and the value it returned
LoggedVal(op, link, ok, val) ==
  Append(log, [op |-> op, link |-> link, ok |-> ok, val |-> val])

Logged(op, link, ok) == LoggedVal(op, link, ok, ok)

\* lines 27-37: c, err = parseConfigFile(...); log.Fatal(err) on an error
ParseConfigFile ==
  /\ mpc = "parseConfigFile"
  /\ \E ok \in BOOLEAN :
       /\ log' = Logged("parseConfigFile", "", ok)
       /\ mpc' = IF ok THEN "setDefaults" ELSE "fatal"
  /\ UNCHANGED <<cfg, fs, na, rv, ifaceType, sensor, applied>>
  /\ UNCHANGED dvars

\* line 38
SetDefaults ==
  /\ mpc = "setDefaults"
  /\ cfg' = setDefaults(cfg)
  /\ log' = Logged("setDefaults", "", TRUE)
  /\ mpc' = "validateInterface"
  /\ UNCHANGED <<fs, na, rv, ifaceType, sensor, applied>>
  /\ UNCHANGED dvars

\* lines 39-42 and 89-92, 99-110: pcap.FindAllDevs may fail (log.Fatal inside
\* validateInterface), else the interface is looked up among the devices
ValidateInterface ==
  /\ mpc = "validateInterface"
  /\ \E devs \in BOOLEAN :
       LET ok == devs /\ validateInterface(cfg.Interface) = NoError
       IN  /\ log' = Logged("validateInterface", "", ok)
           /\ mpc' = IF ok THEN "validateSnapshotLength" ELSE "fatal"
  /\ UNCHANGED <<cfg, fs, na, rv, ifaceType, sensor, applied>>
  /\ UNCHANGED dvars

\* lines 39-42 and 93-96
ValidateSnapshotLength ==
  /\ mpc = "validateSnapshotLength"
  /\ LET ok == validateSnapshotLength(cfg.SnapLen) = NoError
     IN  /\ log' = Logged("validateSnapshotLength", "", ok)
         /\ mpc' = IF ok THEN "convertIfaceType" ELSE "fatal"
  /\ UNCHANGED <<cfg, fs, na, rv, ifaceType, sensor, applied>>
  /\ UNCHANGED dvars

\* lines 43-46
ConvertIfaceType ==
  /\ mpc = "convertIfaceType"
  /\ LET r == convertIfaceType(cfg.InterfaceType)
     IN  /\ log' = Logged("convertIfaceType", "", r.err = NoError)
         /\ ifaceType' = r.type
         /\ mpc' = IF r.err = NoError THEN "newAnalyzers" ELSE "fatal"
  /\ UNCHANGED <<cfg, fs, na, rv, sensor, applied>>
  /\ UNCHANGED dvars

\* every error return of newAnalyzers: return nil, err
ErrReturnPartial(analyzers, err) == [analyzers |-> analyzers, err |-> err]
ErrReturn(analyzers, err) == [analyzers |-> <<>>, err |-> err]

\* line 146: if !exists
NeedsCloneAlways(exists) == TRUE
NeedsClone(exists) == ~exists

\* line 152: else if update
NeedsPull(exists, update) == exists /\ update

\* lines 154-156: the error of the pull is assigned to err and overwritten by
\* the os.Stat of line 156 before anything reads it
PullErrorFatal(ok) == ~ok
PullFatal(ok) == FALSE

\* line 181: analyzers = append(analyzers, analyzer)
ReplaceAnalyzers(analyzers, analyzer) == <<analyzer>>
AppendAnalyzer(analyzers, analyzer) == Append(analyzers, analyzer)

\* lines 47, 132-139: main calls newAnalyzers(c.Analyzers, c.UpdateAnalyzers),
\* which asks for the current user
UserCurrent ==
  /\ mpc = "newAnalyzers"
  /\ na.pc = "none"
  /\ \E ok \in BOOLEAN :
       /\ log' = Logged("user.Current", "", ok)
       /\ IF ok
          THEN /\ na' = [NoFrame EXCEPT !.pc = "range", !.todo = cfg.Analyzers]
               /\ rv' = rv
          ELSE /\ na' = [na EXCEPT !.pc = "returned"]
               /\ rv' = ErrReturn(na.analyzers, "user.Current")
  /\ UNCHANGED <<cfg, fs, mpc, ifaceType, sensor, applied>>
  /\ UNCHANGED dvars

\* lines 140-146, 152: the next link of the map, in any order, and
\* dirExists(pluginDir)
RangeLinks ==
  /\ mpc = "newAnalyzers"
  /\ na.pc = "range"
  /\ \E link \in na.todo :
       LET r == dirExists(fs[link])
       IN  /\ log' = LoggedVal("dirExists", link, r.err = NoError, r.exists)
           /\ IF r.err # NoError
              THEN /\ na' = [na EXCEPT !.pc = "returned", !.link = link,
                                       !.todo = @ \ {link}]
                   /\ rv' = ErrReturn(na.analyzers, "dirExists")
              ELSE /\ na' = [na EXCEPT
                               !.pc = IF NeedsClone(r.exists) THEN "clone"
                                      ELSE IF NeedsPull(r.exists, cfg.UpdateAnalyzers)
                                      THEN "pull" ELSE "stat",
                               !.link = link,
                               !.todo = @ \ {link}]
                   /\ rv' = rv
  /\ UNCHANGED <<cfg, fs, mpc, ifaceType, sensor, applied>>
  /\ UNCHANGED dvars

\* lines 147-151: git clone https://<link> <pluginDir>; the cloned repository
\* holds a main.go or not
Clone ==
  /\ mpc = "newAnalyzers"
  /\ na.pc = "clone"
  /\ \E ok \in BOOLEAN, main \in BOOLEAN :
       /\ log' = Logged("clone", na.link, ok)
       /\ IF ok
          THEN /\ fs' = [fs EXCEPT ![na.link] = [dir |-> "present", main |-> main]]
               /\ na' = [na EXCEPT !.pc = "stat"]
               /\ rv' = rv
          ELSE /\ na' = [na EXCEPT !.pc = "returned"]
               /\ rv' = ErrReturn(na.analyzers, "failed to install")
               /\ fs' = fs
  /\ UNCHANGED <<cfg, mpc, ifaceType, sensor, applied>>
  /\ UNCHANGED dvars

\* lines 153-155: git -C <pluginDir> pull; a pull that succeeds brings the
\* remote's tree, with a main.go or not; one that fails leaves the copy as it was
Pull ==
  /\ mpc = "newAnalyzers"
  /\ na.pc = "pull"
  /\ \E ok \in BOOLEAN, main \in BOOLEAN :
       /\ log' = Logged("pull", na.link, ok)
       /\ fs' = IF ok THEN [fs EXCEPT ![na.link].main = main] ELSE fs
       /\ IF PullFatal(ok)
          THEN /\ na' = [na EXCEPT !.pc = "returned"]
               /\ rv' = ErrReturn(na.analyzers, "pull")
          ELSE /\ na' = [na EXCEPT !.pc = "stat"]
               /\ rv' = rv
  /\ UNCHANGED <<cfg, mpc, ifaceType, sensor, applied>>
  /\ UNCHANGED dvars

\* lines 156-159: a main.go that os.Stat does not find is an error
EntryPointUnchecked(main) == FALSE
EntryPointMissing(main) == ~main

\* lines 156-160: os.Stat(mainPath)
StatMain ==
  /\ mpc = "newAnalyzers"
  /\ na.pc = "stat"
  /\ log' = Logged("stat", na.link, fs[na.link].main)
  /\ IF ~EntryPointMissing(fs[na.link].main)
     THEN /\ na' = [na EXCEPT !.pc = "range",
                              !.analyzerFiles = Append(@, na.link)]
          /\ rv' = rv
     ELSE /\ na' = [na EXCEPT !.pc = "returned"]
          /\ rv' = ErrReturn(na.analyzers, "stat")
  /\ UNCHANGED <<cfg, fs, mpc, ifaceType, sensor, applied>>
  /\ UNCHANGED dvars

\* lines 140-163: the second loop starts when the first has ranged over
\* every link of c.Analyzers
FirstLoopDoneEarly(todo) == TRUE
FirstLoopDone(todo) == todo = {}

\* lines 161-163: the first loop is over
EndRange ==
  /\ mpc = "newAnalyzers"
  /\ na.pc = "range"
  /\ FirstLoopDone(na.todo)
  /\ na' = [na EXCEPT !.pc = "build", !.k = 1]
  /\ UNCHANGED <<cfg, fs, mpc, rv, ifaceType, sensor, log, applied>>
  /\ UNCHANGED dvars

\* lines 163-171: go build -buildmode=plugin -o <dir>/main.so <analyzerFile>
Build ==
  /\ mpc = "newAnalyzers"
  /\ na.pc = "build"
  /\ na.k <= Len(na.analyzerFiles)
  /\ \E ok \in BOOLEAN :
       /\ log' = Logged("build", na.analyzerFiles[na.k], ok)
       /\ IF ok
          THEN /\ na' = [na EXCEPT !.pc = "open"]
               /\ rv' = rv
          ELSE /\ na' = [na EXCEPT !.pc = "returned"]
               /\ rv' = ErrReturn(na.analyzers, "failed to build")
  /\ UNCHANGED <<cfg, fs, mpc, ifaceType, sensor, applied>>
  /\ UNCHANGED dvars

\* lines 172-175: plugin.Open(<dir>/main.so)
Open ==
  /\ mpc = "newAnalyzers"
  /\ na.pc = "open"
  /\ \E ok \in BOOLEAN :
       /\ log' = Logged("open", na.analyzerFiles[na.k], ok)
       /\ IF ok
          THEN /\ na' = [na EXCEPT !.pc = "lookup"]
               /\ rv' = rv
          ELSE /\ na' = [na EXCEPT !.pc = "returned"]
               /\ rv' = ErrReturn(na.analyzers, "plugin.Open")
  /\ UNCHANGED <<cfg, fs, mpc, ifaceType, sensor, applied>>
  /\ UNCHANGED dvars

\* lines 176-179: p.Lookup("NewAnalyzer")
Lookup ==
  /\ mpc = "newAnalyzers"
  /\ na.pc = "lookup"
  /\ \E ok \in BOOLEAN :
       /\ log' = Logged("lookup", na.analyzerFiles[na.k], ok)
       /\ IF ok
          THEN /\ na' = [na EXCEPT !.pc = "construct"]
               /\ rv' = rv
          ELSE /\ na' = [na EXCEPT !.pc = "returned"]
               /\ rv' = ErrReturn(na.analyzers, "plugin.Lookup")
  /\ UNCHANGED <<cfg, fs, mpc, ifaceType, sensor, applied>>
  /\ UNCHANGED dvars

\* lines 180-181: newAnalyzerFunc.(func() gourmet.Analyzer)(): a type assertion
\* without the ok form, which panics when the symbol has another type; else
\* the factory is called and its analyzer appended
Construct ==
  /\ mpc = "newAnalyzers"
  /\ na.pc = "construct"
  /\ \E typed \in BOOLEAN :
       IF typed
       THEN /\ log' = Logged("NewAnalyzer", na.analyzerFiles[na.k], TRUE)
            /\ na' = [na EXCEPT
                        !.pc = "build",
                        !.k = @ + 1,
                        !.analyzers =
                          AppendAnalyzer(@, [plugin |-> na.analyzerFiles[na.k]])]
            /\ mpc' = mpc
       ELSE /\ log' = Logged("assert", na.analyzerFiles[na.k], FALSE)
            /\ na' = na
            /\ mpc' = "panic"
  /\ UNCHANGED <<cfg, fs, rv, ifaceType, sensor, applied>>
  /\ UNCHANGED dvars

\* line 184: return analyzers, nil
ReturnAnalyzers ==
  /\ mpc = "newAnalyzers"
  /\ na.pc = "build"
  /\ na.k > Len(na.analyzerFiles)
  /\ na' = [na EXCEPT !.pc = "returned"]
  /\ rv' = [analyzers |-> na.analyzers, err |-> NoError]
  /\ UNCHANGED <<cfg, fs, mpc, ifaceType, sensor, log, applied>>
  /\ UNCHANGED dvars

\* lines 47-50: analyzers, err := newAnalyzers(...); log.Fatal(err) on an error
CheckAnalyzers ==
  /\ mpc = "newAnalyzers"
  /\ na.pc = "returned"
  /\ mpc' = IF rv.err = NoError THEN "start" ELSE "fatal"
  /\ UNCHANGED <<cfg, fs, na, rv, ifaceType, sensor, log, applied>>
  /\ UNCHANGED dvars

\* lines 51-60: gourmet.Start(opts)
Start ==
  /\ mpc = "start"
  /\ sensor' = [started |-> TRUE,
                InterfaceName |-> cfg.Interface,
                InterfaceType |-> ifaceType,
                SnapLen |-> uint32(cfg.SnapLen),
                LogFileName |-> cfg.LogFile,
                Analyzers |-> rv.analyzers]
  /\ log' = Logged("gourmet.Start", "", TRUE)
  /\ mpc' = "started"
  /\ UNCHANGED <<cfg, fs, na, rv, ifaceType, applied>>
  /\ UNCHANGED dvars

Next ==
  \/ ParseConfigFile
  \/ SetDefaults
  \/ ValidateInterface
  \/ ValidateSnapshotLength
  \/ ConvertIfaceType
  \/ UserCurrent
  \/ RangeLinks
  \/ Clone
  \/ Pull
  \/ StatMain
  \/ EndRange
  \/ Build
  \/ Open
  \/ Lookup
  \/ Construct
  \/ ReturnAnalyzers
  \/ CheckAnalyzers
  \/ Start

Spec == Init /\ [][Next]_vars

(***************************************************************************)
(* The configuration functions of cmd/main.go on their own: setDefaults,   *)
(* validateSnapshotLength and convertIfaceType applied, in any order, to   *)
(* a configuration drawn from a wide set of values.                        *)
(***************************************************************************)
WideSnapLens ==
  {<<l3, l2, l1, l0>> :
     l3 \in {-32768, -1, 0, 1, 32767}, l2 \in {0, 1, 65535},
     l1 \in {0, 1, 4, 65535}, l0 \in {0, 63, 64, 65, 65535}}

IfaceTypeNames == {"", "libpcap", "afpacket", "Libpcap", "AFPACKET", "pcap"}

WideConfigs ==
  [Interface : {"eth0"},
   SnapLen : WideSnapLens,
   LogFile : {"", "s.log"},
   InterfaceType : IfaceTypeNames,
   Analyzers : {{}},
   UpdateAnalyzers : {FALSE}]

ValidateInit ==
  /\ cfg \in WideConfigs
  /\ fs = [l \in {} |-> 0]
  /\ mpc = "none"
  /\ na = NoFrame
  /\ rv = NoReturn
  /\ ifaceType = "0"
  /\ sensor = NoSensor
  /\ log = <<>>
  /\ applied = <<>>
  /\ DispatchIdle

Applied(fn, arg, res) == Append(applied, [fn |-> fn, arg |-> arg, res |-> res])

ApplySetDefaults ==
  /\ Len(applied) < MaxCalls
  /\ cfg' = setDefaults(cfg)
  /\ applied' = Applied("setDefaults", cfg, setDefaults(cfg))
  /\ UNCHANGED <<fs, mpc, na, rv, ifaceType, sensor, log>>
  /\ UNCHANGED dvars

ApplyValidateSnapshotLength ==
  /\ Len(applied) < MaxCalls
  /\ applied' = Applied("validateSnapshotLength", cfg.SnapLen,
                        validateSnapshotLength(cfg.SnapLen))
  /\ UNCHANGED <<cfg, fs, mpc, na, rv, ifaceType, sensor, log>>
  /\ UNCHANGED dvars

ApplyConvertIfaceType ==
  /\ Len(applied) < MaxCalls
  /\ applied' = Applied("convertIfaceType", cfg.InterfaceType,
                        convertIfaceType(cfg.InterfaceType))
  /\ UNCHANGED <<cfg, fs, mpc, na, rv, ifaceType, sensor, log>>
  /\ UNCHANGED dvars

ValidateNext ==
  \/ ApplySetDefaults
  \/ ApplyValidateSnapshotLength
  \/ ApplyConvertIfaceType

ValidateSpec == ValidateInit /\ [][ValidateNext]_vars

(***************************************************************************)
(* Connection.analyze: the dispatch of connection records.                 *)
(***************************************************************************)
DispatchInit ==
  /\ registeredAnalyzers \in Sequences_(Analyzer, MaxAnalyzers)
  /\ conn = [c \in Conns |-> Connection(TransportOf(c))]
  /\ pc = [c \in Conns |-> "idle"]
  /\ idx = [c \in Conns |-> 0]
  /\ cur = [c \in Conns |-> [pre |-> EmptyMap, calls |-> <<>>]]
  /\ hist = [c \in Conns |-> <<>>]
  /\ crashed = FALSE
  /\ StartupIdle

\* the sensor calls c.analyze()
Call(c) ==
  /\ ~crashed
  /\ pc[c] = "idle"
  /\ Len(hist[c]) < MaxDispatches
  /\ pc' = [pc EXCEPT ![c] = "loop"]
  /\ idx' = [idx EXCEPT ![c] = 1]
  /\ cur' = [cur EXCEPT ![c] = [pre |-> conn[c].Analyzers, calls |-> <<>>]]
  /\ UNCHANGED <<registeredAnalyzers, conn, hist, crashed>>
  /\ UNCHANGED svars

Returned(c, err, calls) ==
  [pre |-> cur[c].pre, post |-> conn[c].Analyzers, err |-> err, calls |-> calls]

\* line 23: range reads the registry and leaves it as it is
Consumed(reg) == IF reg = <<>> THEN reg ELSE Tail(reg)
Ranged(reg) == reg

\* line 29: the map written is that of the receiver c of the call
SharedRecord(c) == "c1"
Receiver(c) == c

\* lines 26-28: return err leaves in the map what the loop has stored so far
RolledBack(pre, now) == pre
ResultsOnError(pre, now) == now

\* one iteration of the loop of lines 23-31
Iterate(c) ==
  /\ ~crashed
  /\ pc[c] = "loop"
  /\ idx[c] <= Len(registeredAnalyzers)
  /\ LET i == idx[c]
         a == registeredAnalyzers[i]
         f == Filter(a, conn[c])
         fcall == Append(cur[c].calls, [op |-> "Filter", at |-> i, val |-> f])
         acall == Append(fcall, [op |-> "Analyze", at |-> i, val |-> TRUE])
         r == Analyze(a, conn[c], i)
     IN  IF ~ShouldAnalyze(f)
         THEN /\ cur' = [cur EXCEPT ![c].calls = fcall]
              /\ idx' = [idx EXCEPT ![c] = i + 1]
              /\ UNCHANGED <<conn, pc, hist, crashed>>
         ELSE IF ErrorReturns(r.err)
         THEN \* return err
              /\ conn' = [conn EXCEPT ![c].Analyzers = ResultsOnError(cur[c].pre, @)]
              /\ hist' = [hist EXCEPT ![c] =
                            Append(@, [Returned(c, r.err, acall) EXCEPT
                                         !.post = conn'[c].Analyzers])]
              /\ pc' = [pc EXCEPT ![c] = "idle"]
              /\ cur' = [cur EXCEPT ![c].calls = acall]
              /\ UNCHANGED <<idx, crashed>>
         ELSE IF r.nil
         THEN \* result.Key() on a nil interface value: run-time panic
              /\ crashed' = TRUE
              /\ cur' = [cur EXCEPT ![c].calls = acall]
              /\ UNCHANGED <<conn, pc, idx, hist>>
         ELSE /\ conn' = [conn EXCEPT ![Receiver(c)].Analyzers = Store(@, r.result)]
              /\ cur' = [cur EXCEPT ![c].calls = acall]
              /\ idx' = [idx EXCEPT ![c] = i + 1]
              /\ UNCHANGED <<pc, hist, crashed>>
  /\ registeredAnalyzers' = Ranged(registeredAnalyzers)
  /\ UNCHANGED svars

\* line 32: return nil
ReturnNil(c) ==
  /\ ~crashed
  /\ pc[c] = "loop"
  /\ idx[c] > Len(registeredAnalyzers)
  /\ hist' = [hist EXCEPT ![c] = Append(@, Returned(c, 0, cur[c].calls))]
  /\ pc' = [pc EXCEPT ![c] = "idle"]
  /\ UNCHANGED <<registeredAnalyzers, conn, idx, cur, crashed>>
  /\ UNCHANGED svars

DispatchNext ==
  \/ \E c \in Conns : Call(c)
  \/ \E c \in Conns : Iterate(c)
  \/ \E c \in Conns : ReturnNil(c)

DispatchSpec == DispatchInit /\ [][DispatchNext]_vars

(***************************************************************************)
(* Properties of Connection.analyze, read off the dispatches that returned *)
(* (hist) and the one that is running (cur).                               *)
(***************************************************************************)
Range(q) == {q[n] : n \in 1..Len(q)}

Max(S) == CHOOSE m \in S : \A n \in S : n <= m

\* registry positions whose Filter was called and returned v
Filtered(calls, v) == {e.at : e \in {d \in Range(calls) : d.op = "Filter" /\ d.val = v}}

\* registry positions whose Analyze was called
Analyzed(calls) == {e.at : e \in {d \in Range(calls) : d.op = "Analyze"}}

\* registry positions whose Analyze was called and failed
FailedAt(calls) == {i \in Analyzed(calls) : registeredAnalyzers[i].analyze \in Failing}

\* every dispatch that returned, of any record
Dispatches == UNION {Range(hist[c]) : c \in Conns}

\* C1: after a dispatch of a record whose Results were empty, the key set of
\* Results is exactly the keys of the analyzers whose Filter returned true, up
\* to and excluding the first whose Analyze failed; an analyzer whose Filter
\* returned false is never asked to Analyze.
C1_KeySet ==
  \A h \in Dispatches :
    /\ Analyzed(h.calls) \cap Filtered(h.calls, FALSE) = {}
    /\ Analyzed(h.calls) = Filtered(h.calls, TRUE)
    /\ h.pre = EmptyMap =>
         DOMAIN h.post =
           {registeredAnalyzers[i].key :
              i \in Filtered(h.calls, TRUE) \ FailedAt(h.calls)}

\* a dispatch of an empty record returned an error after a matching analyzer
\* stored its key and a non-matching one was passed over
C1_Witness ==
  /\ \E h \in Dispatches :
       h.pre = EmptyMap /\ h.err # 0 /\ DOMAIN h.post # {}
  /\ \E h \in Dispatches :
       h.pre = EmptyMap /\ Filtered(h.calls, FALSE) # {} /\ DOMAIN h.post # {}

\* C2: when Analyze of the analyzer at position i fails, the dispatch returns
\* that error and no Filter or Analyze of a later position is called; a
\* dispatch in which no Analyze fails returns no error.
C2_FailFast ==
  /\ \A h \in Dispatches :
       /\ FailedAt(h.calls) = {} => h.err = 0
       /\ \A i \in FailedAt(h.calls) :
            /\ h.err = i
            /\ \A e \in Range(h.calls) : e.at <= i
            /\ h.calls[Len(h.calls)] = [op |-> "Analyze", at |-> i, val |-> TRUE]
  /\ \A c \in Conns :
       FailedAt(cur[c].calls) # {} => pc[c] = "idle"

\* a dispatch returned the error of an analyzer that is not the last of the registry
C2_Witness ==
  \E h \in Dispatches :
    /\ h.err # 0
    /\ h.err < Len(registeredAnalyzers)
    /\ Filter(registeredAnalyzers[Len(registeredAnalyzers)],
              [TransportType |-> "TCP", Analyzers |-> h.post])

\* the positions whose Analyze succeeded with a result of key k
Stored(calls, k) ==
  {i \in Analyzed(calls) :
     registeredAnalyzers[i].analyze = "ok" /\ registeredAnalyzers[i].key = k}

\* C3: when two matching analyzers both succeed with the same key, Results
\* holds under that key the result of the later one, and the overwrite
\* reports no error (an error returned is that of a failing Analyze).
C3_LaterWins ==
  \A h \in Dispatches : \A k \in Keys :
    Cardinality(Stored(h.calls, k)) >= 2 =>
      /\ k \in DOMAIN h.post
      /\ h.post[k] = [by |-> Max(Stored(h.calls, k)), key |-> k]
      /\ h.err # 0 => h.err \in FailedAt(h.calls)

\* two analyzers stored the same key in a dispatch that returned no error
C3_Witness ==
  \E h \in Dispatches : \E k \in Keys :
    Cardinality(Stored(h.calls, k)) >= 2 /\ h.err = 0

\* an analyzer whose Filter reads the record's Results mapping
ReadsResults(a) == a.filter = "seen_x"

\* C4 as stated: a second dispatch of the same record against the same registry
\* leaves Results as the first dispatch left them.
C4_Idempotent_Original ==
  \A c \in Conns : \A n \in 1..Len(hist[c]) :
    n > 1 => hist[c][n].post = hist[c][n - 1].post

\* C4 amended: when no analyzer of the registry reads the record's Results
\* mapping, a second dispatch of the same record leaves Results as the first
\* dispatch left them.
C4_Idempotent ==
  (\A i \in 1..Len(registeredAnalyzers) : ~ReadsResults(registeredAnalyzers[i])) =>
    C4_Idempotent_Original

\* a record was dispatched twice against a registry none of whose analyzers
\* reads Results, and two of them stored a result
C4_Witness ==
  /\ \A i \in 1..Len(registeredAnalyzers) : ~ReadsResults(registeredAnalyzers[i])
  /\ \E c \in Conns :
       /\ Len(hist[c]) >= 2
       /\ Cardinality(Analyzed(hist[c][2].calls)) >= 2
       /\ hist[c][2].post # EmptyMap

(***************************************************************************)
(* Properties of newAnalyzers and main, read off the log of calls.         *)
(***************************************************************************)
\* positions of the log at which op was issued for link
Issued(op, link) == {n \in 1..Len(log) : log[n].op = op /\ log[n].link = link}

\* positions of the log at which one of ops failed
FailedSteps(ops) == {n \in 1..Len(log) : log[n].op \in ops /\ ~log[n].ok}

ReturnedError == na.pc = "returned" /\ rv.err \notin {NoError, "none"}

\* C5: when the presence check, the fetch, the entry-point verification, the
\* build, the load or the symbol lookup fails for a reference, newAnalyzers
\* returns at once an error with an empty analyzer set, whatever it has
\* constructed so far, and the sensor is not started.
C5_FailFast ==
  /\ \A n \in FailedSteps({"dirExists", "clone", "stat", "build", "open", "lookup"}) :
       /\ n = Len(log)
       /\ ReturnedError
       /\ rv.analyzers = <<>>
       /\ ~sensor.started
       /\ mpc \in {"newAnalyzers", "fatal"}
  /\ ReturnedError => rv.analyzers = <<>>

\* a build failed after an analyzer of another reference had been constructed,
\* and the process ended in log.Fatal
C5_Witness ==
  /\ rv.err = "failed to build"
  /\ na.analyzers # <<>>
  /\ mpc = "fatal"

\* C6: when every step succeeds, the factory was called exactly once for each
\* configured reference and the returned set holds exactly one instance per
\* reference, fetched or cached.
C6_OnePerReference ==
  (na.pc = "returned" /\ rv.err = NoError) =>
    /\ \A l \in cfg.Analyzers : Cardinality(Issued("NewAnalyzer", l)) = 1
    /\ Len(rv.analyzers) = Cardinality(cfg.Analyzers)
    /\ \A l \in cfg.Analyzers :
         Cardinality({n \in 1..Len(rv.analyzers) : rv.analyzers[n].plugin = l}) = 1

\* a successful run over two references, one fetched and one already cached
C6_Witness ==
  /\ na.pc = "returned"
  /\ rv.err = NoError
  /\ \E l1 \in cfg.Analyzers, l2 \in cfg.Analyzers :
       Issued("clone", l1) # {} /\ Issued("clone", l2) = {}

\* C7: a failed update of an existing directory is not fatal: newAnalyzers does
\* not return its error, goes on to verify the entry point of the copy that is
\* there, and a run that succeeds constructs the reference's analyzer once.
C7_RefreshNonFatal ==
  \A l \in cfg.Analyzers : \A n \in Issued("pull", l) :
    ~log[n].ok =>
      /\ rv.err # "pull"
      /\ fs[l].dir = "present"
      /\ IF n = Len(log)
         THEN na.pc = "stat" /\ na.link = l /\ mpc = "newAnalyzers"
         ELSE log[n + 1] = [op |-> "stat", link |-> l, ok |-> fs[l].main,
                            val |-> fs[l].main]
      /\ (na.pc = "returned" /\ rv.err = NoError) =>
           Cardinality(Issued("NewAnalyzer", l)) = 1

\* the sensor was started after an update had failed
C7_Witness ==
  /\ mpc = "started"
  /\ FailedSteps({"pull"}) # {}

\* C8: the clone is issued iff the directory is absent, at most once; a failed
\* clone makes newAnalyzers return an error with no later step; the pull is
\* issued only for a directory that was present and with the refresh flag set;
\* no reference is both cloned and pulled.
C8_FetchOnce ==
  \A l \in cfg.Analyzers :
    /\ Cardinality(Issued("clone", l)) <= 1
    /\ Cardinality(Issued("pull", l)) <= 1
    /\ Cardinality(Issued("dirExists", l)) <= 1
    /\ \A n \in Issued("clone", l) :
         /\ n > 1
         /\ log[n - 1] = [op |-> "dirExists", link |-> l, ok |-> TRUE, val |-> FALSE]
         /\ ~log[n].ok =>
              /\ n = Len(log)
              /\ na.pc = "returned"
              /\ rv = [analyzers |-> <<>>, err |-> "failed to install"]
    /\ \A n \in Issued("dirExists", l) :
         (log[n].ok /\ ~log[n].val) =>
           IF n = Len(log) THEN na.pc = "clone" /\ na.link = l
           ELSE log[n + 1].op = "clone" /\ log[n + 1].link = l
    /\ \A n \in Issued("pull", l) :
         /\ n > 1
         /\ log[n - 1] = [op |-> "dirExists", link |-> l, ok |-> TRUE, val |-> TRUE]
         /\ cfg.UpdateAnalyzers
    /\ Issued("clone", l) = {} \/ Issued("pull", l) = {}

\* a clone failed after another reference had been updated
C8_Witness ==
  /\ FailedSteps({"clone"}) # {}
  /\ \E l \in cfg.Analyzers : Issued("pull", l) # {}

\* C9: every failure of a Plugin Manager step, a factory symbol of the wrong
\* type included, reaches the caller of newAnalyzers as a returned error.
C9_ErrorsReturned ==
  /\ mpc # "panic"
  /\ \A n \in FailedSteps({"clone", "stat", "build", "open", "lookup", "assert"}) :
       ReturnedError

(***************************************************************************)
(* Properties of the configuration functions.                              *)
(***************************************************************************)
\* 64 <= n <= 4294967295, said on the limbs: n fits 32 bits and is at least 64
InSnapLenRange(n) == n[1] = 0 /\ n[2] = 0 /\ (n[3] > 0 \/ n[4] >= 64)

\* C10: validateSnapshotLength accepts n iff 64 <= n <= 4294967295; 63 and
\* 4294967296 are rejected, 64 and 4294967295 accepted.
C10_SnapLenRange ==
  /\ \A n \in 1..Len(applied) :
       applied[n].fn = "validateSnapshotLength" =>
         (applied[n].res = NoError <=> InSnapLenRange(applied[n].arg))
  /\ validateSnapshotLength(<<0, 0, 0, 63>>) # NoError
  /\ validateSnapshotLength(<<0, 0, 0, 64>>) = NoError
  /\ validateSnapshotLength(<<0, 0, 65535, 65535>>) = NoError
  /\ validateSnapshotLength(<<0, 1, 0, 0>>) # NoError
  /\ validateSnapshotLength(<<-1, 65535, 65535, 65535>>) # NoError

\* 4294967295 has been validated and accepted
C10_Witness ==
  \E n \in 1..Len(applied) :
    /\ applied[n].fn = "validateSnapshotLength"
    /\ applied[n].arg = <<0, 0, 65535, 65535>>
    /\ applied[n].res = NoError

\* C11: convertIfaceType succeeds iff its argument is exactly "libpcap" or
\* exactly "afpacket", which it maps to two distinct interface types; every
\* other string, the empty one and other spellings included, gives an error.
C11_IfaceTypeExact ==
  /\ \A n \in 1..Len(applied) :
       applied[n].fn = "convertIfaceType" =>
         /\ applied[n].res.err = NoError <=> applied[n].arg \in {"libpcap", "afpacket"}
         /\ applied[n].arg = "libpcap" => applied[n].res.type = "LibpcapType"
         /\ applied[n].arg = "afpacket" => applied[n].res.type = "AfpacketType"
         /\ applied[n].res.err # NoError =>
              applied[n].res.type \notin {"LibpcapType", "AfpacketType"}
  /\ convertIfaceType("libpcap").type # convertIfaceType("afpacket").type
  /\ convertIfaceType("").err # NoError

\* a differently-cased spelling has been converted and refused
C11_Witness ==
  \E n \in 1..Len(applied) :
    /\ applied[n].fn = "convertIfaceType"
    /\ applied[n].arg = "Libpcap"
    /\ applied[n].res.err # NoError

(***************************************************************************)
(* Properties of dispatches of several records.                            *)
(***************************************************************************)
\* what a dispatch of a record of transport type t and Results m, run on its
\* own from registry position i on, returns: the Results and the error
RECURSIVE Alone(_, _, _)
Alone(i, t, m) ==
  IF i > Len(registeredAnalyzers) THEN [post |-> m, err |-> 0]
  ELSE LET a == registeredAnalyzers[i]
           matches == \/ a.filter = "always"
                      \/ a.filter = "tcp" /\ t = "TCP"
                      \/ a.filter = "seen_x" /\ "x" \in DOMAIN m
       IN  IF ~matches THEN Alone(i + 1, t, m)
           ELSE IF a.analyze \in Failing THEN [post |-> m, err |-> i]
           ELSE IF a.analyze = "nil" THEN [post |-> m, err |-> -1]
           ELSE Alone(i + 1, t,
                      [k \in DOMAIN m \cup {a.key} |->
                         IF k = a.key THEN [by |-> i, key |-> a.key] ELSE m[k]])

\* every dispatch that returned gave the Results and the error of the same
\* dispatch run alone
SameAsAlone ==
  \A c \in Conns : \A n \in 1..Len(hist[c]) :
    LET h == hist[c][n]
        alone == Alone(1, conn[c].TransportType, h.pre)
    IN  h.post = alone.post /\ h.err = alone.err

\* the records whose dispatch panicked: the last call is an Analyze that
\* returned a nil result and a nil error
Panicked ==
  {c \in Conns :
     /\ pc[c] = "loop"
     /\ cur[c].calls # <<>>
     /\ LET e == cur[c].calls[Len(cur[c].calls)]
        IN  e.op = "Analyze" /\ registeredAnalyzers[e.at].analyze = "nil"}

StepRank(op) ==
  CASE op = "dirExists" -> 1
    [] op \in {"clone", "pull"} -> 2
    [] op = "stat" -> 3
    [] op = "build" -> 4
    [] op = "open" -> 5
    [] op = "lookup" -> 6
    [] op \in {"assert", "NewAnalyzer"} -> 7
    [] OTHER -> 0

\* positions of the log that belong to link
StepsOf(link) == {n \in 1..Len(log) : log[n].link = link}

\* the step of link that precedes its step at position n
Previous(link, n) == Max({m \in StepsOf(link) : m < n})

\* the steps of every reference come in lifecycle order, none twice, each
\* directly after the one before it (the fetch or refresh may be absent), and
\* each after a step that succeeded or whose op is in tolerated
InLifecycleOrder(tolerated) ==
  \A l \in cfg.Analyzers : \A n \in StepsOf(l) :
    IF StepRank(log[n].op) = 1
    THEN \A m \in StepsOf(l) : m >= n
    ELSE /\ \E m \in StepsOf(l) : m < n
         /\ LET p == log[Previous(l, n)]
            IN  /\ \/ StepRank(p.op) = StepRank(log[n].op) - 1
                   \/ StepRank(p.op) = 1 /\ StepRank(log[n].op) = 3
                /\ p.ok \/ p.op \in tolerated

\* C13 as stated: within one reference the steps happen in order, each only
\* after the previous one succeeded.
C13_Sequential_Original == InLifecycleOrder({})

\* C13 amended: within one reference the steps happen in order, each only
\* after the previous one succeeded, except that the entry-point verification
\* also follows a refresh that failed.
C13_Sequential == InLifecycleOrder({"pull"})

\* a reference went through every step, its refresh having failed
C13_Witness ==
  \E l \in cfg.Analyzers :
    /\ Issued("NewAnalyzer", l) # {}
    /\ \E n \in Issued("pull", l) : ~log[n].ok

\* C14: a main.go absent after the fetch or refresh step makes newAnalyzers
\* return an error, for a reference just fetched and for a cached one, with or
\* without the refresh flag; no build is started for such a reference.
C14_EntryPointRequired ==
  /\ \A l \in cfg.Analyzers : \A n \in Issued("stat", l) :
       /\ log[n].ok = fs[l].main
       /\ ~fs[l].main =>
            /\ n = Len(log)
            /\ rv = [analyzers |-> <<>>, err |-> "stat"]
            /\ na.pc = "returned"
            /\ mpc \in {"newAnalyzers", "fatal"}
  /\ \A l \in cfg.Analyzers : Issued("build", l) # {} => fs[l].main

\* the entry point of a freshly cloned reference was missing, after that of a
\* cached reference had been found, and startup ended in log.Fatal
C14_Witness ==
  /\ mpc = "fatal"
  /\ \E l \in cfg.Analyzers : \E n \in Issued("stat", l) :
       ~log[n].ok /\ log[n - 1].op = "clone"
  /\ \E l \in cfg.Analyzers : \E n \in Issued("stat", l) :
       log[n].ok /\ log[n - 1].op = "dirExists"

\* C15: no step of any dispatch adds, removes, replaces or reorders entries
\* of the registry: it stays the sequence it was when dispatching began.
C15_RegistryReadOnly == [][registeredAnalyzers' = registeredAnalyzers]_vars

\* both records were dispatched against a registry of two analyzers, and
\* results were stored
C15_Witness ==
  /\ Len(registeredAnalyzers) >= 2
  /\ \A c \in Conns : hist[c] # <<>>
  /\ \E h \in Dispatches : h.post # EmptyMap /\ Len(h.calls) >= 4

(***************************************************************************)
(* Properties of the startup sequence of main.                             *)
(***************************************************************************)
\* the calls of main up to newAnalyzers, in the order of lines 27-47
MainSteps ==
  <<"parseConfigFile", "setDefaults", "validateInterface", "validateSnapshotLength",
    "convertIfaceType">>

\* the configuration names a device of the host, a snapshot length in
\* [64, 4294967295] and one of the two interface types
ConfigValid ==
  /\ cfg.Interface \in Devices
  /\ InSnapLenRange(cfg.SnapLen)
  /\ cfg.InterfaceType \in {"libpcap", "afpacket"}

\* C16: the sensor is started only after config parsing, interface validation,
\* snapshot-length validation, interface-type conversion and newAnalyzers have
\* succeeded, in that order; a failure at any of them ends startup, and no
\* step of newAnalyzers is issued on an invalid configuration.
C16_StartupGating ==
  /\ \A n \in 1..Len(log) :
       /\ n <= Len(MainSteps) => log[n].op = MainSteps[n]
       /\ n > Len(MainSteps) =>
            /\ log[n].op \notin Range(MainSteps)
            /\ \A k \in 1..Len(MainSteps) : log[k].ok
            /\ ConfigValid
       /\ (n <= Len(MainSteps) /\ ~log[n].ok) =>
            n = Len(log) /\ mpc = "fatal" /\ ~sensor.started
       /\ log[n].op = "gourmet.Start" => n = Len(log)
  /\ mpc = "fatal" => ~sensor.started
  /\ rv.err \notin {NoError, "none"} => ~sensor.started /\ mpc \in {"newAnalyzers", "fatal"}
  /\ sensor.started =>
       /\ log[Len(log)].op = "gourmet.Start"
       /\ na.pc = "returned"
       /\ rv.err = NoError
       /\ FailedSteps({"user.Current", "dirExists", "clone", "stat", "build", "open",
                       "lookup", "assert"}) = {}

\* the sensor was started after a plugin had been cloned and built
C16_Witness ==
  /\ sensor.started
  /\ \E l \in cfg.Analyzers : Issued("clone", l) # {} /\ Issued("build", l) # {}

(***************************************************************************)
(* Results after a dispatch that returned an error.                        *)
(***************************************************************************)
\* C17: a dispatch that returned the error of the analyzer at position i
\* leaves in Results, under each key stored by an analyzer before i, the
\* result of the last such analyzer, and leaves every other key as it was
\* before the dispatch: present with the same value, or absent.
C17_NoRollback ==
  \A h \in Dispatches :
    h.err # 0 =>
      /\ \A i \in Analyzed(h.calls) : i <= h.err
      /\ \A k \in Keys \cup DOMAIN h.pre \cup DOMAIN h.post :
           IF Stored(h.calls, k) # {}
           THEN /\ k \in DOMAIN h.post
                /\ h.post[k] = [by |-> Max(Stored(h.calls, k)), key |-> k]
           ELSE /\ k \in DOMAIN h.pre <=> k \in DOMAIN h.post
                /\ k \in DOMAIN h.pre => h.post[k] = h.pre[k]

\* a dispatch returned an error after an earlier analyzer had stored a result
\* under a key Results did not hold before
C17_Witness ==
  \E h \in Dispatches : \E k \in Keys :
    /\ h.err # 0
    /\ Stored(h.calls, k) # {}
    /\ k \notin DOMAIN h.pre
    /\ k \in DOMAIN h.post

(***************************************************************************)
(* Properties of the two loops of newAnalyzers.                            *)
(***************************************************************************)
\* the steps of the second loop
SecondPhase == {"build", "open", "lookup", "NewAnalyzer", "assert"}

\* every step of the second loop comes after the presence check, the fetch or
\* refresh and the entry-point verification of every configured reference,
\* each of which succeeded or has its op in tolerated; a failed presence
\* check, fetch or entry-point verification leaves no step of the second loop
\* and no constructed analyzer
TwoPhase(tolerated) ==
  /\ \A m \in 1..Len(log) :
       log[m].op \in SecondPhase =>
         /\ \A n \in 1..Len(log) : StepRank(log[n].op) \in 1..3 => n < m
         /\ \A l \in cfg.Analyzers :
              /\ \E d \in Issued("dirExists", l) : log[d].ok
              /\ \A f \in Issued("clone", l) \cup Issued("pull", l) :
                   log[f].ok \/ log[f].op \in tolerated
              /\ \E v \in Issued("stat", l) : log[v].ok
  /\ FailedSteps({"dirExists", "clone", "stat"}) # {} =>
       /\ \A m \in 1..Len(log) : log[m].op \notin SecondPhase
       /\ na.analyzers = <<>>
       /\ rv.analyzers = <<>>

\* C18 as stated: no build, load or factory invocation starts until the
\* presence check, the fetch or refresh and the entry-point verification have
\* succeeded for every configured reference.
C18_TwoPhase_Original == TwoPhase({})

\* C18 amended: no build, load or factory invocation starts until the presence
\* check, the fetch and the entry-point verification have succeeded and the
\* refresh has been attempted for every configured reference; a failed fetch
\* or a missing entry point of one reference prevents every build and leaves
\* zero constructed analyzers.
C18_TwoPhase == TwoPhase({"pull"})

\* with two references configured, a build was started after the refresh of
\* one of them had failed
C18_Witness ==
  /\ Cardinality(cfg.Analyzers) = 2
  /\ \E m \in 1..Len(log) : log[m].op = "build"
  /\ FailedSteps({"pull"}) # {}

(***************************************************************************)
(* Properties of setDefaults.                                              *)
(***************************************************************************)
\* positions of applied at which fn was applied
AppliedAt(fn) == {n \in 1..Len(applied) : applied[n].fn = fn}

\* C19: setDefaults replaces a snapshot length of 0 with 262144, an empty log
\* file name with "gourmet.log" and an empty interface type with "libpcap",
\* leaves every other value as it is and is idempotent; a snapshot length of 0
\* and an empty interface type are accepted by the validation and the
\* conversion that follow setDefaults, as 262144 and libpcap, while
\* validateSnapshotLength(0) and convertIfaceType("") reject them.
C19_Defaults ==
  /\ \A n \in AppliedAt("setDefaults") :
       LET a == applied[n].arg
           r == applied[n].res
       IN  /\ r.SnapLen = IF a.SnapLen = <<0, 0, 0, 0>> THEN <<0, 0, 4, 0>> ELSE a.SnapLen
           /\ r.LogFile = IF a.LogFile = "" THEN "gourmet.log" ELSE a.LogFile
           /\ r.InterfaceType = IF a.InterfaceType = "" THEN "libpcap" ELSE a.InterfaceType
           /\ r.Interface = a.Interface
           /\ r.Analyzers = a.Analyzers
           /\ r.UpdateAnalyzers = a.UpdateAnalyzers
           /\ setDefaults(r) = r
           /\ \A m \in AppliedAt("setDefaults") : m < n => r = a
           /\ \A m \in AppliedAt("validateSnapshotLength") :
                (n < m /\ a.SnapLen = <<0, 0, 0, 0>>) =>
                  applied[m].arg = <<0, 0, 4, 0>> /\ applied[m].res = NoError
           /\ \A m \in AppliedAt("convertIfaceType") :
                (n < m /\ a.InterfaceType = "") =>
                  /\ applied[m].arg = "libpcap"
                  /\ applied[m].res = [type |-> "LibpcapType", err |-> NoError]
  /\ \A m \in AppliedAt("validateSnapshotLength") :
       applied[m].arg = <<0, 0, 0, 0>> => applied[m].res # NoError
  /\ \A m \in AppliedAt("convertIfaceType") :
       applied[m].arg = "" => applied[m].res.err # NoError
  /\ validateSnapshotLength(<<0, 0, 0, 0>>) # NoError
  /\ convertIfaceType("").err # NoError

\* a configuration with snapshot length 0 and no interface type went through
\* setDefaults, then validateSnapshotLength, then convertIfaceType, and was
\* accepted by both
C19_Witness ==
  /\ Len(applied) = 3
  /\ applied[1].fn = "setDefaults"
  /\ applied[1].arg.SnapLen = <<0, 0, 0, 0>>
  /\ applied[1].arg.InterfaceType = ""
  /\ applied[1].arg.LogFile = "s.log"
  /\ applied[2].fn = "validateSnapshotLength"
  /\ applied[2].res = NoError
  /\ applied[3].fn = "convertIfaceType"
  /\ applied[3].res.err = NoError

(***************************************************************************)
(* Properties of the snapshot length handed to the sensor.                 *)
(***************************************************************************)
\* C20: the SnapLen of the options the sensor is started with is the
\* configured or defaulted snapshot length, unchanged by the conversion to 32
\* bits, and lies in [64, 4294967295].
C20_SnapLenLossless ==
  sensor.started =>
    /\ sensor.SnapLen = cfg.SnapLen
    /\ InSnapLenRange(sensor.SnapLen)
    /\ \E n \in 1..Len(log) : log[n].op = "validateSnapshotLength" /\ log[n].ok

\* the sensor was started with the largest snapshot length, 4294967295
C20_Witness ==
  /\ sensor.started
  /\ cfg.SnapLen = <<0, 0, 65535, 65535>>
  /\ sensor.SnapLen = <<0, 0, 65535, 65535>>

====
